---- MODULE Spec2Model ----
(***************************************************************************)
(* Model of the zea-kinematics animation core used by RobotAnimation:      *)
(* the keyframe track (BaseTrack) with its undo/redo Change objects, the   *)
(* AttachmentConstraint operator and the RPM timer drivers of the          *)
(* GearsOperator and the PistonOperator.                                   *)
(*                                                                         *)
(* Indices are 0-based as in the JavaScript source; a TLA+ sequence s      *)
(* holds the element of JavaScript index i at s[i + 1].                    *)
(***************************************************************************)
EXTENDS Integers, Sequences, FiniteSets, TLC

\* ------------------------------------------------------------------ bounds
MaxKeys == 3
MaxTime == 4
MaxChanges == 2
MaxInitKeys == 1
MaxTargets == 2
MaxAttachTime == 3
MaxTimers == 4
MaxRevolutions == 3
MaxRPM == 2
MaxControlTime == 2
MaxDocKeys == 2
MaxDocTime == 2
MaxPropKeys == 1
MaxPropTime == 2
MaxWrites == 3
MaxRun == 2
MaxTransactions == 2
MaxJoints == 3
MaxDist == 2
MaxOffset == 1
MaxMultiplier == 2
MaxAngle == 3
MaxTimelineKeys == 3
MaxTimelineTime == 4
MaxParts == 4
MaxStages == 6
MaxSampleKeys == 3
MaxSampleTime == 4

\* Fractions of the explode view are counted in quarters.
ExplodeUnit == 4

\* The value of a JavaScript variable that was declared and never assigned
\* (`let index;` in addKey), kept apart from every array index and from -1.
Undefined == -9

Times == 1..MaxTime
Values == {"a", "b"}
NoValue == "none"

VARIABLES
  keys,        \* BaseTrack.keys: sequence of [time, value]
  undoStack,   \* Change objects constructed (or redone) and not undone, oldest first
  redoStack,   \* Change objects undone and not redone, oldest undo first
  base,        \* the track as it was when the oldest change of the log was constructed
  pre,         \* the track before the constructor of the newest change ran
  post,        \* the track its constructor, or its last update(), left
  last,        \* the last operation: its arguments, its result, the track before it
  attachTargets,  \* AttachmentConstraint.__attachTargets: sequence of [time, offsetXfo]
  targetXfo,      \* the value of each target's parameter, as input.getValue() read it
  attachId,       \* AttachmentConstraint.__attachId
  inXfo,          \* the value its output.getValue() read from the Attached output
  outXfo,         \* the value evaluate() wrote with output.setClean
  ev,             \* the last evaluate(): the target it found, whether the one
                  \* before found another, whether it cached an offset, and
                  \* whether the pose it wrote is the pose under the attachment
                  \* of the evaluate() before (asPrev) and under the target
                  \* __attachId named (asLast)
  rpm,            \* the RPM parameter of each operator
  revolutions,    \* the Revolutions parameter, in steps of 1 / (50 * 60) turn
  timeoutId,      \* __timeoutId of each operator, NoTimer when undefined or null
  pending,        \* the host's timer queue: [id, op, due] of every callback
                  \* not yet run, due once its 20 ms have passed
  recent,         \* for each operator: Revolutions was advanced and no
                  \* sample period has passed since
  nextTimer,      \* the id the next setTimeout returns
  attached,       \* FALSE between detach() and reattach()
  destroyed,      \* TRUE once destroy() has returned
  connected,      \* the outputs of each mechanism operator that are connected
  mev,            \* the last evaluate() of a mechanism operator: the outputs
                  \* connected then, those it read (getValue) and wrote
                  \* (setClean, setValue), and whether it threw
  enabled,        \* the field `enabled` of each solver
  jointXfo,       \* the poses of the two joint parameters of each solver
  sev,            \* the last evaluate() of a solver: the poses it read from
                  \* the joint outputs and wrote to them, whether it read
                  \* bind data, whether it threw
  dirty,          \* the TrackSampler's output is dirty: the next read evaluates
  sampleTime,     \* the value of the TrackSampler's Time input
  output,         \* the value of the parameter the sampler's output is bound to
  trackClass,     \* the class of the track that is saved and loaded
  json,           \* j.keys of a persisted track: a sequence of [time, value]
  loaded,         \* the keys of the fresh track that fromJSON was called on
  lev,            \* the last fromJSON: the keys it was given, whether it threw
  changeId,       \* the number of transactions begun: the identity of the newest
  isOpen,         \* the newest transaction is the manager's current change
  secondaryChanges,     \* secondaryChanges of the newest transaction
  currChange,           \* TrackSampler.__currChange (0: null); __secondaryChange
                        \* is the change it pushed last
  secondaryChangeTime,  \* TrackSampler.__secondaryChangeTime
  tx,             \* the newest transaction: the track when it began and, for
                  \* each time, the secondary changes made for a write at it
  run,            \* the writes since the last write at another time or the
                  \* begin of the transaction: their time, how many, the value
                  \* written last, the track and the number of secondary
                  \* changes before the first of them
  ikJoints,       \* IKSolver.__joints: the axisId of each joint and whether
                  \* init() has given it xfo, localXfo, bindLocalXfo and axis
  ikEnabled,      \* IKSolver.enabled of that solver
  jev,            \* its last evaluate(): whether enabled, the joints evalCCD
                  \* was called on, whether it threw
  xev,            \* the last ExplodePartParameter.evaluate: its arguments, the
                  \* part's members and the displacement added along the axis
  aev,            \* the last angle-limit step of IKJoint.evalCCD: the joint's
                  \* axis and limits, the delta rotation to the parent, the
                  \* angle the step computed and the angle it left
  timeValue,      \* the timeline's time parameter
  playingId,      \* TRUE while the play interval runs
  tev,            \* the last timeline control used: which, the track and the
                  \* time it found, the changes the undo manager had, whether
                  \* it threw
  parts,          \* the Parts list of an ExplodePartsOperator: the Stage of
                  \* each part
  stagesParam,    \* its Stages parameter
  appended,       \* every element so far was added at the end of the list
                  \* and none was removed
  ctl             \* the last undo or redo control used: which, the method it
                  \* called, the track before the last undo control, and
                  \* whether it is a redo control used right after an undo
                  \* control that undid a change

timerVars == <<rpm, revolutions, timeoutId, pending, recent, nextTimer, attached,
              destroyed>>

trackVars == <<keys, undoStack, redoStack, base, pre, post, last>>

attachVars == <<attachTargets, targetXfo, attachId, inXfo, outXfo, ev>>

mechVars == <<connected, mev>>

\* what the operations of one component leave alone
solverVars == <<enabled, jointXfo, sev>>

samplerVars == <<dirty, sampleTime, output>>

persistVars == <<trackClass, json, loaded, lev>>

controlVars == <<ctl>>

backPropVars == <<changeId, isOpen, secondaryChanges, currChange,
                  secondaryChangeTime, tx, run>>

jointVars == <<ikJoints, ikEnabled, jev>>

\* the components of the scene that the track, timer, solver and sampler
\* operations above never touch
explodeVars == <<xev>>

angleVars == <<aev>>

timelineVars == <<timeValue, playingId, tev>>

stageVars == <<parts, stagesParam, appended>>

sceneVars == <<jointVars, explodeVars, angleVars, timelineVars, stageVars>>

oldVars == <<trackVars, attachVars, timerVars, mechVars, solverVars,
             samplerVars, persistVars, controlVars, backPropVars>>

nonJointVars == <<oldVars, explodeVars, angleVars, timelineVars, stageVars>>

nonExplodeVars == <<oldVars, jointVars, angleVars, timelineVars, stageVars>>

nonAngleVars == <<oldVars, jointVars, explodeVars, timelineVars, stageVars>>

nonStageVars == <<oldVars, jointVars, explodeVars, angleVars, timelineVars>>

\* the timeline works on the track and on the undo manager's stacks
nonTimelineVars == <<base, pre, post, last, attachVars, timerVars, mechVars,
                     solverVars, samplerVars, persistVars, controlVars,
                     backPropVars, jointVars, explodeVars, angleVars,
                     stageVars>>

nonTrackVars == <<attachVars, timerVars, mechVars, solverVars, samplerVars,
    persistVars, controlVars,
    backPropVars, sceneVars>>
nonAttachVars == <<trackVars, timerVars, mechVars, solverVars, samplerVars,
    persistVars, controlVars,
    backPropVars, sceneVars>>
nonTimerVars == <<trackVars, attachVars, mechVars, solverVars, samplerVars,
    persistVars, controlVars,
    backPropVars, sceneVars>>
nonMechVars == <<trackVars, attachVars, timerVars, solverVars, samplerVars,
    persistVars, controlVars,
    backPropVars, sceneVars>>
nonSolverVars == <<trackVars, attachVars, timerVars, mechVars, samplerVars,
    persistVars, controlVars,
    backPropVars, sceneVars>>
\* a track with a TrackSampler on it: what their operations leave alone
nonSamplerVars == <<undoStack, redoStack, base, pre, post, last,
                    attachVars, timerVars, mechVars, solverVars, persistVars, controlVars,
    backPropVars, sceneVars>>
\* a track that is saved and loaded: what that leaves alone
nonPersistVars == <<undoStack, redoStack, base, pre, post, last,
                    attachVars, timerVars, mechVars, solverVars, samplerVars, controlVars,
    backPropVars, sceneVars>>

vars == <<keys, undoStack, redoStack, base, pre, post, last,
          attachTargets, targetXfo, attachId, inXfo, outXfo, ev,
          rpm, revolutions, timeoutId, pending, recent, nextTimer, attached,
          destroyed, connected, mev, enabled, jointXfo, sev,
          dirty, sampleTime, output, trackClass, json, loaded, lev,
          changeId, isOpen, secondaryChanges, currChange,
          secondaryChangeTime, tx, run, ikJoints, ikEnabled, jev, xev, aev,
          timeValue, playingId, tev, parts, stagesParam, appended, ctl>>

\* ------------------------------------------------------------- array helpers
Min(S) == CHOOSE x \in S : \A y \in S : x <= y

Max(S) == CHOOSE x \in S : \A y \in S : x >= y

Key(time, value) == [time |-> time, value |-> value]

\* Array.prototype.splice(start, 0, item) for 0 <= start <= length
InsertAt(ks, i, k) == SubSeq(ks, 1, i) \o <<k>> \o SubSeq(ks, i + 1, Len(ks))

\* Array.prototype.splice(start, 1): the relative start of ECMAScript, with
\* undefined converted to 0 and a negative start counted from the end.
SpliceStart(ks, index) ==
  IF index = Undefined THEN 0
  ELSE IF index < 0 THEN (IF Len(ks) + index < 0 THEN 0 ELSE Len(ks) + index)
  ELSE IF index > Len(ks) THEN Len(ks) ELSE index

SpliceOne(ks, index) ==
  LET start == SpliceStart(ks, index) IN
  IF start < Len(ks)
    THEN SubSeq(ks, 1, start) \o SubSeq(ks, start + 2, Len(ks))
    ELSE ks

\* ------------------------------------------------------------------ BaseTrack
\* addKey that pushes the key whatever its time
AddKeyAppend(ks, time, value) ==
  [keys |-> Append(ks, Key(time, value)), index |-> Len(ks)]

\* addKey(time, value): the keys afterwards and the index it returns.
AddKey(ks, time, value) ==
  LET numKeys == Len(ks) IN
  IF numKeys = 0 \/ time < ks[1].time
    THEN [keys |-> InsertAt(ks, 0, Key(time, value)), index |-> 0]
  ELSE IF time > ks[numKeys].time
    THEN [keys |-> Append(ks, Key(time, value)), index |-> numKeys]
  ELSE LET later == {i \in 1..(numKeys - 1) : ks[i + 1].time > time} IN
       IF later = {}
         THEN [keys |-> ks, index |-> Undefined]
         ELSE [keys |-> InsertAt(ks, Min(later), Key(time, value)),
               index |-> Min(later)]

\* removeKey(index)
RemoveKey(ks, index) == SpliceOne(ks, index)

\* this.keys[index] is an object (otherwise reading .value or .time throws)
HasKey(ks, index) == index \in 0..(Len(ks) - 1)

\* setKeyValue(index, value): a TypeError leaves the keys as they are.
SetKeyValue(ks, index, value) ==
  IF HasKey(ks, index)
    THEN [keys |-> [ks EXCEPT ![index + 1].value = value], threw |-> FALSE]
    ELSE [keys |-> ks, threw |-> TRUE]

\* findKeyAndLerp that answers with the key after the bracketing pair's first
FindKeyAndLerpNext(ks, time) ==
  LET numKeys == Len(ks) IN
  IF numKeys = 0 THEN [keyIndex |-> -1, num |-> 0, den |-> 1]
  ELSE IF time <= ks[1].time THEN [keyIndex |-> 0, num |-> 0, den |-> 1]
  ELSE IF time >= ks[numKeys].time THEN [keyIndex |-> numKeys - 1, num |-> 0, den |-> 1]
  ELSE LET i == Min({j \in 1..(numKeys - 1) : ks[j + 1].time > time}) IN
       [keyIndex |-> i,
        num |-> time - ks[i].time,
        den |-> ks[i + 1].time - ks[i].time]

\* findKeyAndLerp(time); lerp is the quotient num / den, kept exact.
FindKeyAndLerp(ks, time) ==
  LET numKeys == Len(ks) IN
  IF numKeys = 0 THEN [keyIndex |-> -1, num |-> 0, den |-> 1]
  ELSE IF time <= ks[1].time THEN [keyIndex |-> 0, num |-> 0, den |-> 1]
  ELSE IF time >= ks[numKeys].time THEN [keyIndex |-> numKeys - 1, num |-> 0, den |-> 1]
  ELSE LET i == Min({j \in 1..(numKeys - 1) : ks[j + 1].time > time}) IN
       [keyIndex |-> i - 1,
        num |-> time - ks[i].time,
        den |-> ks[i + 1].time - ks[i].time]

\* setValue that writes to the key found, also between keys
SetValueAlwaysModify(ks, time, value) ==
  SetKeyValue(ks, FindKeyAndLerp(ks, time).keyIndex, value)

\* setValue(time, value)
SetValue(ks, time, value) ==
  LET keyAndLerp == FindKeyAndLerp(ks, time) IN
  IF keyAndLerp.num > 0
    THEN [keys |-> AddKey(ks, time, value).keys, threw |-> FALSE]
    ELSE SetKeyValue(ks, keyAndLerp.keyIndex, value)

\* ------------------------------------------------------------ last operation
NoResult == [keyIndex |-> Undefined, num |-> 0, den |-> 1]

Op(name, time, value, index, result, threw) ==
  [op |-> name, time |-> time, value |-> value, index |-> index,
   result |-> result, threw |-> threw, pre |-> keys]

\* an operation of the undo log: only its name and whether it threw are kept
LogOp(name, threw) ==
  [op |-> name, time |-> Undefined, value |-> NoValue, index |-> Undefined,
   result |-> NoResult, threw |-> threw, pre |-> <<>>]

\* ------------------------------------------------------- direct track edits
DoAddKey(time, value) ==
  /\ LET r == AddKey(keys, time, value) IN
     /\ Len(r.keys) <= MaxKeys
     /\ keys' = r.keys
     /\ last' = Op("addKey", time, value, r.index, NoResult, FALSE)
  /\ UNCHANGED <<undoStack, redoStack, base, pre, post, nonTrackVars>>

DoRemoveKey(index) ==
  /\ HasKey(keys, index)
  /\ keys' = RemoveKey(keys, index)
  /\ last' = Op("removeKey", Undefined, NoValue, index, NoResult, FALSE)
  /\ UNCHANGED <<undoStack, redoStack, base, pre, post, nonTrackVars>>

DoSetValue(time, value) ==
  /\ LET r == SetValue(keys, time, value) IN
     /\ Len(r.keys) <= MaxKeys
     /\ keys' = r.keys
     /\ last' = Op("setValue", time, value, Undefined, NoResult, r.threw)
  /\ UNCHANGED <<undoStack, redoStack, base, pre, post, nonTrackVars>>

DoFindKeyAndLerp(time) ==
  /\ last' = Op("findKeyAndLerp", time, NoValue, Undefined,
                FindKeyAndLerp(keys, time), FALSE)
  /\ UNCHANGED <<keys, undoStack, redoStack, base, pre, post, nonTrackVars>>

\* ------------------------------------------------------------ Change objects
\* A Change holds the fields its constructor sets.
Change(kind, time, value, index, prevValue, newValue) ==
  [kind |-> kind, time |-> time, value |-> value, index |-> index,
   prevValue |-> prevValue, newValue |-> newValue]

\* new AddKeyChange(track, time, value)
AddKeyChange(ks, time, value) ==
  [change |-> Change("AddKeyChange", time, value, AddKey(ks, time, value).index,
                     NoValue, NoValue),
   keys |-> AddKey(ks, time, value).keys]

\* new KeyChange(track, index, value), for an index getKeyValue can read
KeyChange(ks, index, value) ==
  [change |-> Change("KeyChange", Undefined, NoValue, index,
                     ks[index + 1].value, value),
   keys |-> SetKeyValue(ks, index, value).keys]

\* new RemoveKeyChange(track, index), for an index getKeyTime can read
RemoveKeyChange(ks, index) ==
  [change |-> Change("RemoveKeyChange", ks[index + 1].time,
                     ks[index + 1].value, index, NoValue, NoValue),
   keys |-> RemoveKey(ks, index)]

\* change.undo(): the keys afterwards
ChangeUndo(c, ks) ==
  IF c.kind = "AddKeyChange" THEN RemoveKey(ks, c.index)
  ELSE IF c.kind = "KeyChange" THEN SetKeyValue(ks, c.index, c.prevValue).keys
  ELSE AddKey(ks, c.time, c.value).keys

\* change.redo(): the keys afterwards
ChangeRedo(c, ks) ==
  IF c.kind = "AddKeyChange" THEN AddKey(ks, c.time, c.value).keys
  ELSE IF c.kind = "KeyChange" THEN SetKeyValue(ks, c.index, c.newValue).keys
  ELSE RemoveKey(ks, c.index)

\* change.update(value) of an AddKeyChange or a KeyChange: the field is
\* assigned before setKeyValue is called (and may throw).
ChangeUpdate(c, ks, value) ==
  LET r == SetKeyValue(ks, c.index, value) IN
  [change |-> IF c.kind = "AddKeyChange"
                THEN [c EXCEPT !.value = value]
                ELSE [c EXCEPT !.newValue = value],
   keys |-> r.keys,
   threw |-> r.threw]

\* A change constructed on the track is handed to the undo manager, which
\* puts it on its undo stack and drops the changes that could be redone.
Register(r) ==
  /\ Len(undoStack) < MaxChanges
  /\ Len(r.keys) <= MaxKeys
  /\ keys' = r.keys
  /\ undoStack' = Append(undoStack, r.change)
  /\ redoStack' = <<>>
  /\ base' = IF undoStack = <<>> THEN keys ELSE base
  /\ pre' = keys
  /\ post' = r.keys
  /\ last' = LogOp(r.change.kind, FALSE)
  /\ UNCHANGED <<nonTrackVars>>

NewAddKeyChange(time, value) == Register(AddKeyChange(keys, time, value))

NewKeyChange(index, value) ==
  /\ HasKey(keys, index)
  /\ Register(KeyChange(keys, index, value))

NewRemoveKeyChange(index) ==
  /\ HasKey(keys, index)
  /\ Register(RemoveKeyChange(keys, index))

\* update(value) on the change constructed last
UpdateChange(value) ==
  /\ undoStack # <<>>
  /\ LET c == undoStack[Len(undoStack)]
         r == ChangeUpdate(c, keys, value)
     IN  /\ c.kind \in {"AddKeyChange", "KeyChange"}
         /\ keys' = r.keys
         /\ undoStack' = [undoStack EXCEPT ![Len(undoStack)] = r.change]
         /\ post' = r.keys
         /\ last' = LogOp("update", r.threw)
  /\ UNCHANGED <<redoStack, base, pre, nonTrackVars>>

\* undoRedoManager.undo(): undo() of the newest change not undone
Undo ==
  /\ undoStack # <<>>
  /\ LET c == undoStack[Len(undoStack)] IN
     /\ Len(ChangeUndo(c, keys)) <= MaxKeys
     /\ keys' = ChangeUndo(c, keys)
     /\ undoStack' = SubSeq(undoStack, 1, Len(undoStack) - 1)
     /\ redoStack' = Append(redoStack, c)
     /\ last' = LogOp("undo", FALSE)
  /\ UNCHANGED <<base, pre, post, nonTrackVars>>

\* undoRedoManager.redo(): redo() of the change undone last
Redo ==
  /\ redoStack # <<>>
  /\ LET c == redoStack[Len(redoStack)] IN
     /\ Len(ChangeRedo(c, keys)) <= MaxKeys
     /\ keys' = ChangeRedo(c, keys)
     /\ redoStack' = SubSeq(redoStack, 1, Len(redoStack) - 1)
     /\ undoStack' = Append(undoStack, c)
     /\ last' = LogOp("redo", FALSE)
  /\ UNCHANGED <<base, pre, post, nonTrackVars>>

\* ------------------------------------------------------------------ poses
\* An Xfo is modelled by an element of the group of the permutations of
\* 1..3: multiply() composes, inverse() inverts, and two poses commute only
\* in special cases, as rigid transforms do.
XfoId == <<1, 2, 3>>
XfoFlip == <<2, 1, 3>>
XfoTurn == <<2, 3, 1>>

\* a.multiply(b)
XfoMul(a, b) == <<a[b[1]], a[b[2]], a[b[3]]>>

\* a.inverse()
XfoInvAt(a, i) == CHOOSE j \in 1..3 : a[j] = i
XfoInv(a) == <<XfoInvAt(a, 1), XfoInvAt(a, 2), XfoInvAt(a, 3)>>

\* the poses the scene gives to a target or to the attached item
XfoInputs == {XfoFlip, XfoTurn}

\* offsetXfo: undefined
NoXfo == <<>>

\* --------------------------------------------------- AttachmentConstraint
\* addAttachTarget(target, time)
AddAttachTarget(targets, time) ==
  Append(targets, [time |-> time, offsetXfo |-> NoXfo])

\* findTarget(time)
FindTarget(targets, time) ==
  LET numKeys == Len(targets) IN
  IF numKeys = 0 \/ time <= targets[1].time THEN -1
  ELSE IF time >= targets[numKeys].time THEN numKeys - 1
  ELSE LET later == {i \in 1..(numKeys - 1) : targets[i + 1].time > time} IN
       IF later = {} THEN Undefined ELSE Min(later) - 1

\* the offset with the factors of its product exchanged
OffsetXfoExchanged(targets, poses, id, prevId, xfo) ==
  LET currXfo == poses[id + 1] IN
  IF prevId = -1
    THEN XfoMul(xfo, XfoInv(currXfo))
    ELSE XfoMul(XfoMul(poses[prevId + 1], targets[prevId + 1].offsetXfo),
                XfoInv(currXfo))

\* the offset evaluate() caches when it switches to the target `id`
OffsetXfo(targets, poses, id, prevId, xfo) ==
  LET currXfo == poses[id + 1] IN
  IF prevId = -1
    THEN XfoMul(XfoInv(currXfo), xfo)
    ELSE XfoMul(XfoInv(currXfo),
                XfoMul(poses[prevId + 1], targets[prevId + 1].offsetXfo))

\* evaluate() that computes the offset on every switch to another target
EvaluateRecompute(targets, poses, prevId, time, xfo) ==
  LET id == FindTarget(targets, time) IN
  IF id = -1
    THEN [targets |-> targets, attachId |-> prevId, out |-> xfo,
          active |-> id, fresh |-> FALSE]
    ELSE
      LET fresh == id # prevId
          after == IF fresh
                     THEN [targets EXCEPT ![id + 1].offsetXfo =
                             OffsetXfo(targets, poses, id, prevId, xfo)]
                     ELSE targets
      IN  [targets |-> after, attachId |-> id,
           out |-> XfoMul(poses[id + 1], after[id + 1].offsetXfo),
           active |-> id, fresh |-> fresh]

\* evaluate(): the targets, __attachId and the pose written
Evaluate(targets, poses, prevId, time, xfo) ==
  LET id == FindTarget(targets, time) IN
  IF id = -1
    THEN [targets |-> targets, attachId |-> prevId, out |-> xfo,
          active |-> id, fresh |-> FALSE]
    ELSE
      LET fresh == id # prevId /\ targets[id + 1].offsetXfo = NoXfo
          after == IF fresh
                     THEN [targets EXCEPT ![id + 1].offsetXfo =
                             OffsetXfo(targets, poses, id, prevId, xfo)]
                     ELSE targets
      IN  [targets |-> after, attachId |-> id,
           out |-> XfoMul(poses[id + 1], after[id + 1].offsetXfo),
           active |-> id, fresh |-> fresh]

\* The pose of the attached item under the attachment `id` at this instant:
\* the incoming pose when no target is attached.
PoseUnder(targets, poses, id, xfo) ==
  IF id = -1 THEN xfo
  ELSE XfoMul(poses[id + 1], targets[id + 1].offsetXfo)

\* The index of the latest target whose activation time is <= time, or -1.
LatestTarget(targets, time) ==
  LET active == {i \in 1..Len(targets) : targets[i].time <= time} IN
  IF active = {} THEN -1
  ELSE (CHOOSE i \in active : \A j \in active : j <= i) - 1

\* The caller adds the targets in the order of their activation times,
\* each later than the one before.
DoAddAttachTarget(time, xfo) ==
  /\ Len(attachTargets) < MaxTargets
  /\ attachTargets # <<>> => attachTargets[Len(attachTargets)].time < time
  /\ attachTargets' = AddAttachTarget(attachTargets, time)
  /\ targetXfo' = Append(targetXfo, xfo)
  /\ UNCHANGED <<attachId, inXfo, outXfo, ev, nonAttachVars>>

\* The scene is updated and the output is pulled: evaluate() runs with the
\* Time value, the target poses and the incoming pose of the output that
\* the scene has by then.
EvaluateAttach(time, poses, xfo) ==
  LET r == Evaluate(attachTargets, poses, attachId, time, xfo) IN
  /\ targetXfo' = poses
  /\ inXfo' = xfo
  /\ attachTargets' = r.targets
  /\ attachId' = r.attachId
  /\ outXfo' = r.out
  /\ ev' = [valid |-> TRUE, active |-> r.active,
            switched |-> r.active # ev.active,
            fresh |-> r.fresh,
            isLatest |-> r.active = LatestTarget(attachTargets, time),
            asPrev |-> r.out = PoseUnder(attachTargets, poses, ev.active, xfo),
            asLast |-> r.out = PoseUnder(attachTargets, poses, attachId, xfo)]
  /\ UNCHANGED <<nonAttachVars>>

\* ------------------------------------------------------ RPM timer drivers
Operators == {"gears", "piston"}

\* __timeoutId undefined or null: both are falsy, and clearTimeout ignores both
NoTimer == 0

RPMs == (0 - 1)..MaxRPM

\* the test that lets only a positive RPM value run the driver
RpmDrivesPositive(op, value) == value > 0

\* the test of the RPM valueChanged handler that the driver is to run
RpmDrives(op, value) ==
  IF op = "gears" THEN value > 0 \/ value < 0   \* Math.abs(rpm) > 0.0
  ELSE value > 0                                 \* rpm > 0.0

\* clearTimeout(id)
ClearTimeout(queue, id) == {t \in queue : t.id # id}

\* timerCallback(): Revolutions advances by the RPM read now, and the next
\* callback is scheduled; `queue` is the timer queue it starts from.
TimerCallback(op, queue) ==
  /\ nextTimer <= MaxTimers
  /\ revolutions[op] + rpm'[op] \in (0 - MaxRevolutions)..MaxRevolutions
  /\ revolutions' = [revolutions EXCEPT ![op] = @ + rpm'[op]]
  /\ timeoutId' = [timeoutId EXCEPT ![op] = nextTimer]
  /\ pending' = queue \cup {[id |-> nextTimer, op |-> op, due |-> FALSE]}
  /\ recent' = [recent EXCEPT ![op] = TRUE]
  /\ nextTimer' = nextTimer + 1

\* the handler without the test of __timeoutId: every nonzero RPM value
\* starts a driver
RpmValueChangedAlwaysStarts(op) ==
  IF RpmDrives(op, rpm'[op])
    THEN TimerCallback(op, pending)
    ELSE /\ pending' = ClearTimeout(pending, timeoutId[op])
         /\ timeoutId' = [timeoutId EXCEPT ![op] = NoTimer]
         /\ UNCHANGED <<revolutions, recent, nextTimer>>

\* the RPM valueChanged handler, RPM holding rpm'[op]
RpmValueChanged(op) ==
  IF RpmDrives(op, rpm'[op])
    THEN IF timeoutId[op] = NoTimer
           THEN TimerCallback(op, pending)
           ELSE UNCHANGED <<revolutions, timeoutId, pending, recent, nextTimer>>
    ELSE /\ pending' = ClearTimeout(pending, timeoutId[op])
         /\ timeoutId' = [timeoutId EXCEPT ![op] = NoTimer]
         /\ UNCHANGED <<revolutions, recent, nextTimer>>

\* getParameter('RPM').setValue(value)
SetRPM(op, value) ==
  /\ rpm' = [rpm EXCEPT ![op] = value]
  /\ RpmValueChanged(op)
  /\ UNCHANGED <<attached, destroyed, nonTimerVars>>

\* a sample period (20 ms) passes: every callback scheduled is due
PassPeriod ==
  /\ pending' = {[t EXCEPT !.due = TRUE] : t \in pending}
  /\ recent' = [op \in Operators |-> FALSE]
  /\ UNCHANGED <<rpm, revolutions, timeoutId, nextTimer, attached, destroyed,
                 nonTimerVars>>

\* the host runs a callback that is due
Tick(t) ==
  /\ t \in pending
  /\ t.due
  /\ rpm' = rpm
  /\ TimerCallback(t.op, pending \ {t})
  /\ UNCHANGED <<attached, destroyed, nonTimerVars>>

\* detach(): GearsOperator overrides it, PistonOperator inherits Operator's
Detach(op) ==
  /\ attached[op]
  /\ ~destroyed[op]
  /\ attached' = [attached EXCEPT ![op] = FALSE]
  /\ IF op = "gears" /\ timeoutId[op] # NoTimer
       THEN /\ pending' = ClearTimeout(pending, timeoutId[op])
            /\ timeoutId' = [timeoutId EXCEPT ![op] = NoTimer]
       ELSE UNCHANGED <<pending, timeoutId>>
  /\ UNCHANGED <<rpm, revolutions, recent, nextTimer, destroyed, nonTimerVars>>

\* reattach(): GearsOperator emits RPM valueChanged, PistonOperator inherits
Reattach(op) ==
  /\ ~attached[op]
  /\ ~destroyed[op]
  /\ attached' = [attached EXCEPT ![op] = TRUE]
  /\ rpm' = rpm
  /\ IF op = "gears"
       THEN RpmValueChanged(op)
       ELSE UNCHANGED <<revolutions, timeoutId, pending, recent, nextTimer>>
  /\ UNCHANGED <<destroyed, nonTimerVars>>

\* destroy(): GearsOperator clears a running timer and forgets its id,
\* PistonOperator clears the timer and keeps the id in __timeoutId. Neither
\* takes the valueChanged listener off the RPM parameter.
Destroy(op) ==
  /\ ~destroyed[op]
  /\ destroyed' = [destroyed EXCEPT ![op] = TRUE]
  /\ pending' = ClearTimeout(pending, timeoutId[op])
  /\ timeoutId' = IF op = "gears" THEN [timeoutId EXCEPT ![op] = NoTimer]
                  ELSE timeoutId
  /\ UNCHANGED <<rpm, revolutions, recent, nextTimer, attached, nonTimerVars>>

\* ------------------------------------------- mechanism operators' outputs
MechOperators == {"gears", "piston", "explode", "ram"}

\* the outputs of each operator: two gears, the crank with the rod and the
\* cap of one piston, two exploded parts, the ram and the piston
Outputs(op) ==
  IF op = "gears" THEN {"Gear0", "Gear1"}
  ELSE IF op = "piston" THEN {"Crank", "Rod", "Cap"}
  ELSE IF op = "explode" THEN {"Part0", "Part1"}
  ELSE {"Ram", "Piston"}

\* evaluate() of an operator that tests isConnected() on every output
\* before it reads and writes it
EvaluateGuarded(op, conn) ==
  [read |-> conn, written |-> conn, threw |-> FALSE]

\* RamAndPistonOperator.evaluate(): getValue() on both outputs, no test;
\* an unconnected output gives undefined, and reading .tr of it throws
\* before any output is written.
EvaluateRamAndPiston(conn) ==
  [read |-> Outputs("ram"),
   written |-> IF conn = Outputs("ram") THEN Outputs("ram") ELSE {},
   threw |-> conn # Outputs("ram")]

\* evaluate() of a mechanism operator whose connected outputs are `conn`
MechEvaluate(op, conn) ==
  IF op = "ram" THEN EvaluateRamAndPiston(conn) ELSE EvaluateGuarded(op, conn)

\* output.setParam(param) / output.setParam(null)
SetParam(op, o, on) ==
  /\ o \in Outputs(op)
  /\ on # (o \in connected[op])
  /\ connected' = [connected EXCEPT ![op] = IF on THEN @ \cup {o} ELSE @ \ {o}]
  /\ UNCHANGED <<mev, nonMechVars>>

\* the host evaluates the operator
DoMechEvaluate(op) ==
  LET r == MechEvaluate(op, connected[op]) IN
  /\ mev' = [op |-> op, conn |-> connected[op], read |-> r.read,
             written |-> r.written, threw |-> r.threw]
  /\ UNCHANGED <<connected, nonMechVars>>

\* ------------------------------------------------------------- IK solvers
Solvers == {"ik", "triangle"}

\* the poses of a solver's two joints
JointPoses == {<<a, b>> : a \in XfoInputs, b \in XfoInputs}

\* IKSolver.evaluate(): not enabled, every joint output is written with the
\* value read from it; enabled, the CCD iterations use the bind data of
\* joint.init() and write the poses they end with, `solved`.
IKSolverEvaluate(on, joints, solved) ==
  IF ~on
    THEN [read |-> joints, written |-> joints, readBind |-> FALSE, threw |-> FALSE]
    ELSE [read |-> joints, written |-> solved, readBind |-> TRUE, threw |-> FALSE]

\* TriangleIKSolver.evaluate(): `enabled` is not tested. Before enable()
\* joint1Offset, joint0Length and joint1Length are undefined, and
\* rotateVec3(this.joint1Offset) throws before an output is written.
TriangleIKSolverEvaluate(on, joints, solved) ==
  IF ~on
    THEN [read |-> joints, written |-> <<>>, readBind |-> TRUE, threw |-> TRUE]
    ELSE [read |-> joints, written |-> solved, readBind |-> TRUE, threw |-> FALSE]

SolverEvaluate(solver, on, joints, solved) ==
  IF solver = "ik" THEN IKSolverEvaluate(on, joints, solved)
  ELSE TriangleIKSolverEvaluate(on, joints, solved)

\* enable(): the bind data is computed and `enabled` set
Enable(solver) ==
  /\ ~enabled[solver]
  /\ enabled' = [enabled EXCEPT ![solver] = TRUE]
  /\ UNCHANGED <<jointXfo, sev, nonSolverVars>>

\* the scene moves the joints of a solver
MoveJoints(solver, poses) ==
  /\ poses # jointXfo[solver]
  /\ jointXfo' = [jointXfo EXCEPT ![solver] = poses]
  /\ UNCHANGED <<enabled, sev, nonSolverVars>>

\* the host evaluates a solver
DoSolverEvaluate(solver, solved) ==
  LET r == SolverEvaluate(solver, enabled[solver], jointXfo[solver], solved) IN
  /\ jointXfo' = IF r.threw THEN jointXfo
                 ELSE [jointXfo EXCEPT ![solver] = r.written]
  /\ sev' = [solver |-> solver, enabled |-> enabled[solver], read |-> r.read,
             written |-> r.written, readBind |-> r.readBind, threw |-> r.threw]
  /\ UNCHANGED <<enabled, nonSolverVars>>

\* ------------------------------------------------ IKSolver and its joints
\* new IKJoint(index, axisId, limits, debugTree): xfo, localXfo,
\* bindLocalXfo and axis are not set before init()
IKJoint(axisId) == [axisId |-> axisId, inited |-> FALSE]

\* addJoint(globalXfoParam, axisId, limits)
AddJoint(axisId) ==
  /\ Len(ikJoints) < MaxJoints
  /\ ikJoints' = Append(ikJoints, IKJoint(axisId))
  /\ UNCHANGED <<ikEnabled, jev, nonJointVars>>

\* enable(): joint.init(parentXfo) on every joint of __joints, then enabled
EnableSolver ==
  /\ ikJoints' = [j \in 1..Len(ikJoints) |-> [ikJoints[j] EXCEPT !.inited = TRUE]]
  /\ ikEnabled' = TRUE
  /\ UNCHANGED <<jev, nonJointVars>>

\* the sweep of evaluate(): evalCCD on the joints from the last one down;
\* evalCCD assigns this.xfo.ori first and throws on a joint without xfo
Sweep(joints) ==
  LET n == Len(joints)
      bad == {j \in 1..n : ~joints[j].inited}
  IN  [swept |-> IF bad = {} THEN 1..n ELSE Max(bad)..n,
       threw |-> bad # {}]

\* evaluate() of the IKSolver
EvaluateSolver ==
  /\ jev' = IF ikEnabled
              THEN [valid |-> TRUE, enabled |-> TRUE,
                    swept |-> Sweep(ikJoints).swept, threw |-> Sweep(ikJoints).threw]
              ELSE [valid |-> TRUE, enabled |-> FALSE, swept |-> {}, threw |-> FALSE]
  /\ UNCHANGED <<ikJoints, ikEnabled, nonJointVars>>

\* ------------------------------------------------- ExplodePartsOperator
\* the elementAdded handler for a new part, Stage 0, put at `index`: behind
\* another part it gets that part's Stage + 1 and Stages becomes that
\* Stage + 2, at index 0 Stages becomes 1
ElementAdded(list, index) ==
  IF index > 0
    THEN [parts |-> InsertAt(list, index, list[index] + 1),
          stages |-> list[index] + 2]
    ELSE [parts |-> InsertAt(list, index, 0), stages |-> 1]

\* Parts.insertElement(index, part), Parts.addElement(part) at the end
AddPart(index) ==
  LET r == ElementAdded(parts, index) IN
  /\ Len(parts) < MaxParts
  /\ index \in 0..Len(parts)
  /\ r.stages <= MaxStages
  /\ parts' = r.parts
  /\ stagesParam' = r.stages
  /\ appended' = (appended /\ index = Len(parts))
  /\ UNCHANGED <<nonStageVars>>

\* Parts.removeElement(index): the elementRemoved handler removes the
\* output and leaves every Stage and Stages
RemovePart(index) ==
  /\ index \in 0..(Len(parts) - 1)
  /\ parts' = SubSeq(parts, 1, index) \o SubSeq(parts, index + 2, Len(parts))
  /\ appended' = FALSE
  /\ UNCHANGED <<stagesParam, nonStageVars>>

\* ------------------------------------------------- ExplodePartParameter
\* Explode, the movement timing and stage / stages are counted in steps of
\* 1 / ExplodeUnit; a displacement in steps of 1 / (ExplodeUnit * ExplodeUnit).
StageCounts == {1, 2, 4}
Explodes == 0..ExplodeUnit
Movements == {<<0, ExplodeUnit>>, <<0, 2>>, <<2, ExplodeUnit>>}

\* MathFunctions.linStep(edge0, edge1, x): (x - edge0) / (edge1 - edge0)
\* clamped to [0, 1]
LinStep(edge0, edge1, x) ==
  IF x <= edge0 THEN 0
  ELSE IF x >= edge1 THEN ExplodeUnit
  ELSE (ExplodeUnit * (x - edge0)) \div (edge1 - edge0)

\* stage / stages, lowered by 0.5 when centered
StageFraction(stage, stages, centered) ==
  (ExplodeUnit * stage) \div stages - (IF centered THEN ExplodeUnit \div 2 ELSE 0)

\* evaluate(explode, explodeDist, offset, stages, cascade, centered): the
\* factor of explodeDir in xfo.tr.addInPlace(explodeDir.scale(dist * multiplier))
Displacement(p) ==
  LET t == StageFraction(p.stage, p.stages, p.centered)
      dist == IF p.cascade
                THEN p.explodeDist * ExplodeUnit *
                       LinStep(p.movement[1], p.movement[2], Max({0, p.explode - t}))
                ELSE p.explodeDist *
                       LinStep(p.movement[1], p.movement[2], p.explode) *
                       (ExplodeUnit - t)
  IN  (dist + ExplodeUnit * ExplodeUnit * p.offset) * p.multiplier

\* the arguments of evaluate and the members of the part, and the values
\* each of them is given
PartFields == {"stage", "stages", "explode", "movement", "explodeDist",
               "offset", "multiplier", "cascade", "centered"}

FieldValues(field) ==
  CASE field = "stage" -> 0..(ExplodeUnit - 1)
    [] field = "stages" -> StageCounts
    [] field = "explode" -> Explodes
    [] field = "movement" -> Movements
    [] field = "explodeDist" -> 1..MaxDist
    [] field = "offset" -> (0 - 1)..MaxOffset
    [] field = "multiplier" -> 0..MaxMultiplier
    [] OTHER -> BOOLEAN

NoPart == [stage |-> 0, stages |-> 1, explode |-> 0,
           movement |-> <<0, ExplodeUnit>>, explodeDist |-> 1, offset |-> 0,
           multiplier |-> 1, cascade |-> FALSE, centered |-> FALSE]

\* a parameter of the operator or a member of the part is set and the
\* operator evaluates the part; an unconnected output is left alone
EvaluatePart(p, isConnected) ==
  /\ p.stage < p.stages
  /\ xev' = [valid |-> TRUE, part |-> p, connected |-> isConnected,
             moved |-> isConnected,
             by |-> IF isConnected THEN Displacement(p) ELSE 0]
  /\ UNCHANGED <<nonExplodeVars>>

\* ---------------------------------------- IKJoint.evalCCD, the angle limits
\* Angles are counted in steps of one unit between -MaxAngle and MaxAngle,
\* less than half a turn. The delta rotation parent^-1 * joint turns by
\* `theta` about the joint's axis; of its quaternion only the signs of x, y
\* and z matter to the step: the one along the axis has the sign of theta,
\* the two others are `off1` and `off2`.
Sign(x) == IF x > 0 THEN 1 ELSE IF x < 0 THEN 0 - 1 ELSE 0

Abs(x) == IF x < 0 THEN 0 - x ELSE x

DeltaQuat(axisId, theta, off1, off2) ==
  IF axisId = 0 THEN <<Sign(theta), off1, off2>>
  ELSE IF axisId = 1 THEN <<off1, Sign(theta), off2>>
  ELSE <<off1, off2, Sign(theta)>>

\* new Vec3(deltaQuat.x, deltaQuat.y, deltaQuat.x)
DeltaAxis(deltaQuat) == <<deltaQuat[1], deltaQuat[2], deltaQuat[1]>>

\* the step: currAngle = getAngle(), negated when deltaAxis.dot(this.axis)
\* is negative; outside the limits the joint is turned about its axis by
\* the deficit to the nearer limit
AngleLimits(j) ==
  LET deltaQuat == DeltaQuat(j.axisId, j.theta, j.off1, j.off2)
      dot == DeltaAxis(deltaQuat)[j.axisId + 1]
      currAngle == IF dot < 0 THEN 0 - Abs(j.theta) ELSE Abs(j.theta)
      deltaAngle == IF currAngle < j.min THEN j.min - currAngle
                    ELSE IF currAngle > j.max THEN j.max - currAngle
                    ELSE 0
  IN  [currAngle |-> currAngle, deltaAngle |-> deltaAngle,
       after |-> j.theta + deltaAngle]

JointFields == {"axisId", "theta", "off1", "off2", "min", "max"}

JointValues(field) ==
  CASE field = "axisId" -> 0..2
    [] field = "theta" -> (0 - MaxAngle)..MaxAngle
    [] field = "min" -> (0 - MaxAngle)..0
    [] field = "max" -> 0..MaxAngle
    [] OTHER -> {0 - 1, 0, 1}

\* new IKJoint(index) with the defaults of addJoint: axis X, limits
\* [-180, 180], at its parent's orientation
NoJoint == [axisId |-> 0, theta |-> 0, off1 |-> 0, off2 |-> 0,
            min |-> 0 - MaxAngle, max |-> MaxAngle]

\* evalCCD reaches the angle limits with the joint `j`
ApplyAngleLimits(j) ==
  /\ aev' = [valid |-> TRUE, joint |-> j, currAngle |-> AngleLimits(j).currAngle,
             after |-> AngleLimits(j).after]
  /\ UNCHANGED <<nonAngleVars>>

\* ------------------------------------------------- track evaluate, sampler
\* What evaluate() gives is a stored value itself (Exact) or a new value,
\* the blend of two stored values at the fraction num / den (Lerp).
Exact(value) ==
  [kind |-> "key", from |-> value, to |-> value, num |-> 0, den |-> 1]

\* value0.lerp(value1, lerp)
Lerp(value0, value1, num, den) ==
  [kind |-> "lerp", from |-> value0, to |-> value1, num |-> num, den |-> den]

\* reading .value of this.keys[-1]
TypeError ==
  [kind |-> "TypeError", from |-> NoValue, to |-> NoValue, num |-> 0, den |-> 1]

\* evaluate that never blends
TrackEvaluateNoLerp(ks, time) ==
  LET keyAndLerp == FindKeyAndLerp(ks, time) IN
  IF ~HasKey(ks, keyAndLerp.keyIndex) THEN TypeError
  ELSE Exact(ks[keyAndLerp.keyIndex + 1].value)

\* XfoTrack.evaluate(time), ColorTrack.evaluate(time)
TrackEvaluate(ks, time) ==
  LET keyAndLerp == FindKeyAndLerp(ks, time) IN
  IF ~HasKey(ks, keyAndLerp.keyIndex) THEN TypeError
  ELSE IF keyAndLerp.num > 0
    THEN Lerp(ks[keyAndLerp.keyIndex + 1].value, ks[keyAndLerp.keyIndex + 2].value,
              keyAndLerp.num, keyAndLerp.den)
    ELSE Exact(ks[keyAndLerp.keyIndex + 1].value)

\* a sampler whose listener leaves the dirty flag as it is
SetDirtyMissed(flag) == flag

\* setDirty(), the listener of keyAdded, keyRemoved and keyChanged
SetDirty(flag) == TRUE

\* TrackSampler.evaluate(): the value setClean writes
SamplerEvaluate(ks, time, current) ==
  IF Len(ks) = 0 THEN current ELSE TrackEvaluate(ks, time)

\* track.addKey(time, value) on a track with a sampler
TrackAddKey(time, value) ==
  /\ LET r == AddKey(keys, time, value) IN
     /\ Len(r.keys) <= MaxSampleKeys
     /\ keys' = r.keys
  /\ dirty' = SetDirty(dirty)
  /\ UNCHANGED <<sampleTime, output, nonSamplerVars>>

\* track.removeKey(index) on a track with a sampler
TrackRemoveKey(index) ==
  /\ HasKey(keys, index)
  /\ keys' = RemoveKey(keys, index)
  /\ dirty' = SetDirty(dirty)
  /\ UNCHANGED <<sampleTime, output, nonSamplerVars>>

\* track.setKeyValue(index, value) on a track with a sampler: a TypeError
\* comes before the emit
TrackSetKeyValue(index, value) ==
  /\ LET r == SetKeyValue(keys, index, value) IN
     /\ keys' = r.keys
     /\ dirty' = IF r.threw THEN dirty ELSE SetDirty(dirty)
  /\ UNCHANGED <<sampleTime, output, nonSamplerVars>>

\* the Time input gets another value: the host marks the operator dirty
SetSampleTime(time) ==
  /\ time # sampleTime
  /\ sampleTime' = time
  /\ dirty' = TRUE
  /\ UNCHANGED <<keys, output, nonSamplerVars>>

\* the output is read: a dirty output is evaluated first, a clean one is
\* served as it is
ReadOutput ==
  /\ output' = IF dirty THEN SamplerEvaluate(keys, sampleTime, output) ELSE output
  /\ dirty' = FALSE
  /\ UNCHANGED <<keys, sampleTime, nonSamplerVars>>

\* ------------------------------------------------------------ persistence
TrackClasses == {"XfoTrack", "ColorTrack"}

\* A value is an object of a class (an Xfo, a Color), the plain object its
\* toJSON() gives, or undefined; `v` is what it holds.
ValueOf(kind, v) == [kind |-> kind, v |-> v]

Missing == ValueOf("undefined", NoValue)

\* the values an XfoTrack holds are Xfos, a ColorTrack holds Colors
ValueKind(class) == IF class = "XfoTrack" THEN "Xfo" ELSE "Color"

\* the keys of a track of the class, with the values as objects of its kind
TypedKeys(class, ks) ==
  [i \in 1..Len(ks) |->
     [time |-> ks[i].time, value |-> ValueOf(ValueKind(class), ks[i].value)]]

\* toJSON(): j.keys; Xfo and Color have toJSON(), which gives a plain object
ToJSON(class, ks) ==
  [i \in 1..Len(ks) |->
     [time |-> ks[i].time, value |-> ValueOf("json", ks[i].value)]]

\* loadKeyJSON(json): XfoTrack overrides it and builds an Xfo with
\* fromJSON(json.value), which throws on undefined; ColorTrack inherits
\* BaseTrack's, which keeps json.value as it is.
LoadKeyJSON(class, keyJson) ==
  IF class = "XfoTrack"
    THEN [key |-> [time |-> keyJson.time, value |-> ValueOf("Xfo", keyJson.value.v)],
          threw |-> keyJson.value = Missing]
    ELSE [key |-> [time |-> keyJson.time, value |-> keyJson.value],
          threw |-> FALSE]

\* fromJSON(j): this.keys = j.keys.map(loadKeyJSON), nothing else is tested
FromJSON(class, j) ==
  [keys |-> [i \in 1..Len(j) |-> LoadKeyJSON(class, j[i]).key],
   threw |-> \E i \in 1..Len(j) : LoadKeyJSON(class, j[i]).threw]

\* new XfoTrack(name) / new ColorTrack(name) is the track that is saved
NewTrack(class) ==
  /\ trackClass' = class
  /\ keys' = <<>>
  /\ UNCHANGED <<json, loaded, lev, nonPersistVars>>

\* a key is added to the track that is saved
PersistAddKey(time, value) ==
  /\ Len(keys) < MaxDocKeys
  /\ keys' = AddKey(keys, time, value).keys
  /\ UNCHANGED <<persistVars, nonPersistVars>>

\* track.toJSON() is stored
Save ==
  /\ json' = ToJSON(trackClass, keys)
  /\ UNCHANGED <<keys, trackClass, loaded, lev, nonPersistVars>>

\* the stored document comes from elsewhere: a key is appended to it
WriteKeyJSON(time, value) ==
  /\ Len(json) < MaxDocKeys
  /\ json' = Append(json, [time |-> time, value |-> value])
  /\ UNCHANGED <<keys, trackClass, loaded, lev, nonPersistVars>>

\* the stored document is emptied
ClearJSON ==
  /\ json # <<>>
  /\ json' = <<>>
  /\ UNCHANGED <<keys, trackClass, loaded, lev, nonPersistVars>>

\* new <class>(name).fromJSON(j) on the stored document
Load ==
  LET r == FromJSON(trackClass, json) IN
  /\ loaded' = IF r.threw THEN <<>> ELSE r.keys
  /\ lev' = [valid |-> TRUE, json |-> json, threw |-> r.threw]
  /\ UNCHANGED <<keys, trackClass, json, nonPersistVars>>

\* ------------------------------------------------ undo and redo controls
UndoControls == {"Ctrl+Z", "undoChange"}
RedoControls == {"Ctrl+Y", "redoChange"}

\* the method of the UndoRedoManager that the handler of a control calls
ControlTarget(control) ==
  IF control = "Ctrl+Z" THEN "undo"           \* case 'z': undoRedoManager.undo()
  ELSE IF control = "Ctrl+Y" THEN "undo"      \* case 'y': undoRedoManager.undo()
  ELSE IF control = "undoChange" THEN "undo"  \* window.undoChange
  ELSE "redo"                                 \* window.redoChange

\* undoRedoManager.undo() / redo(): nothing when the stack is empty
ManagerCall(method) ==
  IF method = "undo" /\ undoStack # <<>>
    THEN LET c == undoStack[Len(undoStack)] IN
         [keys |-> ChangeUndo(c, keys),
          undoStack |-> SubSeq(undoStack, 1, Len(undoStack) - 1),
          redoStack |-> Append(redoStack, c), acted |-> TRUE]
  ELSE IF method = "redo" /\ redoStack # <<>>
    THEN LET c == redoStack[Len(redoStack)] IN
         [keys |-> ChangeRedo(c, keys),
          undoStack |-> Append(undoStack, c),
          redoStack |-> SubSeq(redoStack, 1, Len(redoStack) - 1), acted |-> TRUE]
  ELSE [keys |-> keys, undoStack |-> undoStack, redoStack |-> redoStack,
        acted |-> FALSE]

\* the user presses a key combination or clicks a toolbar button
UseControl(control) ==
  LET method == ControlTarget(control)
      r == ManagerCall(method)
  IN  /\ Len(r.keys) <= MaxKeys
      /\ keys' = r.keys
      /\ undoStack' = r.undoStack
      /\ redoStack' = r.redoStack
      /\ last' = LogOp(method, FALSE)
      /\ ctl' = [control |-> control, called |-> method,
                 undid |-> control \in UndoControls /\ r.acted,
                 after |-> <<r.keys, r.undoStack, r.redoStack>>,
                 before |-> IF control \in UndoControls THEN keys ELSE ctl.before,
                 pair |-> /\ control \in RedoControls
                          /\ ctl.undid
                          /\ ctl.after = <<keys, undoStack, redoStack>>]
      /\ UNCHANGED <<base, pre, post, attachVars, timerVars, mechVars,
                     solverVars, samplerVars, persistVars, backPropVars,
                     sceneVars>>

\* ------------------------------------------ TrackSampler.backPropagateValue
\* the test that sends a write to a new secondary change, never to update()
CoalescesNever(curr, change, changeTime, time) == FALSE

\* the write goes to update() of the secondary change made last:
\* not (this.__currChange != change || this.__secondaryChangeTime != time)
Coalesces(curr, change, changeTime, time) ==
  curr = change /\ changeTime = time

\* the test that makes the new secondary change an AddKeyChange
AddsKey(ks, time) ==
  LET keyAndLerp == FindKeyAndLerp(ks, time) IN
  \/ keyAndLerp.keyIndex = -1
  \/ keyAndLerp.num > 0
  \/ /\ keyAndLerp.keyIndex = Len(ks) - 1
     /\ ks[keyAndLerp.keyIndex + 1].time # time

\* the secondary change backPropagateValue constructs, and the keys after
NewSecondaryChange(ks, time, value) ==
  IF AddsKey(ks, time)
    THEN AddKeyChange(ks, time, value)
    ELSE KeyChange(ks, FindKeyAndLerp(ks, time).keyIndex, value)

NoRun == [valid |-> FALSE, time |-> 0, count |-> 0, value |-> NoValue,
          preKeys |-> <<>>, changesBefore |-> 0]

\* undoRedoManager.addChange(change): a transaction begins
BeginChange ==
  /\ changeId < MaxTransactions
  /\ changeId' = changeId + 1
  /\ isOpen' = TRUE
  /\ secondaryChanges' = <<>>
  /\ tx' = [pre |-> keys, made |-> [t \in 0..MaxPropTime |-> 0]]
  /\ run' = NoRun
  /\ UNCHANGED <<keys, currChange, secondaryChangeTime, samplerVars,
                 undoStack, redoStack, base, pre, post, last, attachVars,
                 timerVars, mechVars, solverVars, persistVars, controlVars,
                 sceneVars>>

\* the gesture ends: the manager has no current change
CloseChange ==
  /\ isOpen
  /\ isOpen' = FALSE
  /\ UNCHANGED <<keys, changeId, secondaryChanges, currChange,
                 secondaryChangeTime, tx, run, samplerVars,
                 undoStack, redoStack, base, pre, post, last, attachVars,
                 timerVars, mechVars, solverVars, persistVars, controlVars,
                 sceneVars>>

\* the Time input of the sampler gets another value
SetPropTime(time) ==
  /\ time # sampleTime
  /\ sampleTime' = time
  /\ dirty' = TRUE
  /\ UNCHANGED <<keys, output, backPropVars,
                 undoStack, redoStack, base, pre, post, last, attachVars,
                 timerVars, mechVars, solverVars, persistVars, controlVars,
                 sceneVars>>

\* backPropagateValue(value) while a transaction is open (without one it
\* changes nothing); the track's events mark the sampler dirty
BackPropagateValue(value) ==
  LET time == sampleTime
      change == changeId
      fresh == ~Coalesces(currChange, change, secondaryChangeTime, time)
      r == IF fresh
             THEN NewSecondaryChange(keys, time, value)
             ELSE ChangeUpdate(secondaryChanges[Len(secondaryChanges)], keys, value)
      continues == run.valid /\ run.time = time
  IN  /\ isOpen
      /\ Len(secondaryChanges) + (IF fresh THEN 1 ELSE 0) <= MaxWrites
      /\ (IF continues THEN run.count ELSE 0) < MaxRun
      /\ currChange' = change
      /\ secondaryChangeTime' = time
      /\ keys' = r.keys
      /\ secondaryChanges' =
           IF fresh THEN Append(secondaryChanges, r.change)
           ELSE [secondaryChanges EXCEPT ![Len(secondaryChanges)] = r.change]
      /\ dirty' = SetDirty(dirty)
      /\ tx' = IF fresh THEN [tx EXCEPT !.made[time] = @ + 1] ELSE tx
      /\ run' = [valid |-> TRUE, time |-> time,
                 count |-> IF continues THEN run.count + 1 ELSE 1,
                 value |-> value,
                 preKeys |-> IF continues THEN run.preKeys ELSE keys,
                 changesBefore |-> IF continues THEN run.changesBefore
                                   ELSE Len(secondaryChanges)]
      /\ UNCHANGED <<changeId, isOpen, sampleTime, output,
                     undoStack, redoStack, base, pre, post, last, attachVars,
                     timerVars, mechVars, solverVars, persistVars, controlVars,
                 sceneVars>>

\* ------------------------------------------------------ timeline controls
TimelineEvent(control, threw) ==
  [control |-> control, pre |-> keys, time |-> timeValue,
   changes |-> Len(undoStack), threw |-> threw]

\* the space key: play() or stop()
TogglePlay ==
  /\ playingId' = ~playingId
  /\ tev' = TimelineEvent("space", FALSE)
  /\ UNCHANGED <<keys, undoStack, redoStack, timeValue, nonTimelineVars>>

\* the play interval: time += 20, back to the start after the end of the range
PlayStep ==
  /\ playingId
  /\ timeValue' = IF timeValue >= MaxTimelineTime THEN 0 ELSE timeValue + 1
  /\ tev' = TimelineEvent("play", FALSE)
  /\ UNCHANGED <<keys, undoStack, redoStack, playingId, nonTimelineVars>>

\* mousedown on the timeline: playback stops, the time bar is dragged
DragTimeBar(time) ==
  /\ playingId' = FALSE
  /\ timeValue' = time
  /\ tev' = TimelineEvent("drag", FALSE)
  /\ UNCHANGED <<keys, undoStack, redoStack, nonTimelineVars>>

\* the delete key: a RemoveKeyChange on the key found when lerp == 0.0; its
\* constructor throws on keyIndex -1, before the track is touched
DeleteKey ==
  LET keyAndLerp == FindKeyAndLerp(keys, timeValue) IN
  /\ IF keyAndLerp.num = 0
       THEN IF HasKey(keys, keyAndLerp.keyIndex)
              THEN /\ keys' = RemoveKeyChange(keys, keyAndLerp.keyIndex).keys
                   /\ undoStack' = Append(undoStack,
                                     RemoveKeyChange(keys, keyAndLerp.keyIndex).change)
                   /\ redoStack' = <<>>
                   /\ tev' = TimelineEvent("delete", FALSE)
              ELSE /\ tev' = TimelineEvent("delete", TRUE)
                   /\ UNCHANGED <<keys, undoStack, redoStack>>
       ELSE /\ tev' = TimelineEvent("delete", FALSE)
            /\ UNCHANGED <<keys, undoStack, redoStack>>
  /\ UNCHANGED <<timeValue, playingId, nonTimelineVars>>

\* the time the previous-key control goes to; Undefined when getKeyTime throws
PrevKeyTime(ks, time) ==
  LET keyAndLerp == FindKeyAndLerp(ks, time)
      index == IF keyAndLerp.num > 0 THEN keyAndLerp.keyIndex
               ELSE IF keyAndLerp.keyIndex > 0 THEN keyAndLerp.keyIndex - 1
               ELSE Len(ks) - 1
  IN  IF HasKey(ks, index) THEN ks[index + 1].time ELSE Undefined

\* the time the next-key control goes to; Undefined when getKeyTime throws
NextKeyTime(ks, time) ==
  LET keyAndLerp == FindKeyAndLerp(ks, time)
      index == IF keyAndLerp.keyIndex < Len(ks) - 1 THEN keyAndLerp.keyIndex + 1
               ELSE 0
  IN  IF HasKey(ks, index) THEN ks[index + 1].time ELSE Undefined

\* mousedown on the previous-key or the next-key control
GoToKey(control) ==
  LET time == IF control = "prev" THEN PrevKeyTime(keys, timeValue)
              ELSE NextKeyTime(keys, timeValue)
  IN  /\ playingId' = FALSE
      /\ timeValue' = IF time = Undefined THEN timeValue ELSE time
      /\ tev' = TimelineEvent(control, time = Undefined)
      /\ UNCHANGED <<keys, undoStack, redoStack, nonTimelineVars>>

\* ------------------------------------------------------------ track claims
StrictlyIncreasing(ks) == \A i \in 1..(Len(ks) - 1) : ks[i].time < ks[i + 1].time

TimeSorted(ks) == \A i \in 1..(Len(ks) - 1) : ks[i].time <= ks[i + 1].time

\* C2: in every reachable state of a track mutated by addKey and removeKey
\* with arbitrary times, key times are strictly increasing (no two keys
\* share a time).
C2_UniqueTimes == StrictlyIncreasing(keys)

\* C3: after every addKey and every removeKey the keys are time-sorted:
\* keys[i].time <= keys[i+1].time for every adjacent pair.
C3_KeysTimeSorted == TimeSorted(keys)

\* an addKey put a key in front of, and another one between, keys added before
C3_Witness ==
  /\ last.op = "addKey"
  /\ Len(keys) = 3
  /\ last.index = 1
  /\ \E i \in 1..2 : keys[i].time < keys[i + 1].time

\* C4: addKey(time, value) inserts exactly one key and returns its index i:
\* the key count is one higher, keys[i] = {time, value}, the keys present
\* before keep their order, for every time (also one equal to a key time).
C4_AddKeyInsertsOne ==
  last.op = "addKey" =>
    /\ Len(keys) = Len(last.pre) + 1
    /\ HasKey(keys, last.index)
    /\ keys[last.index + 1] = Key(last.time, last.value)
    /\ SpliceOne(keys, last.index) = last.pre

\* C5: on a non-empty track with strictly increasing times, findKeyAndLerp(t)
\* gives {0, 0} for t at or before the first key, {last, 0} for t at or after
\* the last key, and otherwise the key with keys[k].time <= t < keys[k+1].time
\* and lerp = (t - keys[k].time) / (keys[k+1].time - keys[k].time) in [0,1).
C5_FindKeyAndLerp ==
  (last.op = "findKeyAndLerp" /\ Len(keys) > 0 /\ StrictlyIncreasing(keys)) =>
    LET t == last.time
        r == last.result
        n == Len(keys)
    IN  /\ r.den > 0 /\ 0 <= r.num /\ r.num < r.den
        /\ HasKey(keys, r.keyIndex)
        /\ t < keys[1].time => (r.keyIndex = 0 /\ r.num = 0)
        /\ t >= keys[n].time => (r.keyIndex = n - 1 /\ r.num = 0)
        /\ (keys[1].time <= t /\ t < keys[n].time) =>
             /\ r.keyIndex < n - 1
             /\ keys[r.keyIndex + 1].time <= t
             /\ t < keys[r.keyIndex + 2].time
             /\ r.num * (keys[r.keyIndex + 2].time - keys[r.keyIndex + 1].time)
                  = (t - keys[r.keyIndex + 1].time) * r.den

\* findKeyAndLerp answered for a time strictly between the last two of three keys
C5_Witness ==
  /\ last.op = "findKeyAndLerp"
  /\ Len(keys) = 3 /\ StrictlyIncreasing(keys)
  /\ last.result.keyIndex = 1
  /\ last.result.num > 0

\* C8: setValue(time, value) on a track with at least two keys inserts the
\* key {time, value} between two adjacent keys when time lies strictly
\* between their times, and when time is the time of a key it replaces the
\* value of such a key and changes nothing else.
C8_SetValue ==
  (last.op = "setValue" /\ Len(last.pre) >= 2) =>
    LET p == last.pre
        t == last.time
    IN  /\ \A i \in 1..(Len(p) - 1) :
             (p[i].time < t /\ t < p[i + 1].time) =>
                keys = InsertAt(p, i, Key(t, last.value))
        /\ (\E k \in 1..Len(p) : p[k].time = t) =>
             \E k \in 1..Len(p) :
                /\ p[k].time = t
                /\ keys = [p EXCEPT ![k].value = last.value]

\* setValue inserted between two keys
C8_Witness ==
  /\ last.op = "setValue"
  /\ Len(last.pre) = 2 /\ Len(keys) = 3
  /\ keys[2] = Key(last.time, last.value)

\* ------------------------------------------------------------ undo claims
\* C1: for any sequence of AddKeyChange / KeyChange / RemoveKeyChange
\* constructions, undo() of every change in reverse order of construction
\* restores the track to its state before the sequence: same keys, same
\* times, same values, same order.
C1_UndoAllRestores == undoStack = <<>> => keys = base

\* C9: undo() of a change leaves the track as it was before the change was
\* constructed, a following redo() leaves it as the constructor (or the
\* last update()) left it, and alternating undo()/redo() keeps toggling
\* between exactly these two tracks.
C9_UndoRedoToggle ==
  /\ (last.op = "undo" /\ Len(redoStack) = 1) => keys = pre
  /\ (last.op = "redo" /\ redoStack = <<>>) => keys = post

\* ------------------------------------------------------ attachment claims
\* C6 as stated: on every evaluate() that finds a target active which the
\* previous evaluate() did not (none to a target, target to target, a
\* target activated again after time looped back), the pose written is the
\* pose the output had at that instant under the previously active
\* attachment, however the targets moved in between.
C6_ContinuityOnEverySwitch ==
  (ev.valid /\ ev.switched /\ ev.active # -1) => ev.asPrev

\* C6 as amended: on every evaluate() that caches the offset of the target
\* it activates (the first activation of that target), the pose written is
\* the pose under the target activated last (its pose now * its offset), or
\* the incoming pose of the output when no target was activated before.
C6_ContinuityOnFirstActivation ==
  (ev.valid /\ ev.fresh) => ev.asLast

\* evaluate() went from the first target to the second one for the first
\* time, the two targets being at different poses
C6_Witness ==
  /\ ev.valid /\ ev.fresh /\ ev.switched
  /\ ev.active = 1
  /\ attachTargets[1].offsetXfo \notin {NoXfo, XfoId}
  /\ targetXfo[1] # targetXfo[2]
  /\ outXfo # inXfo

\* C7: findTarget(time) is -1 when time is before the first activation time
\* or there are no targets, and otherwise the index of the latest target
\* whose activation time is <= time, also at a time equal to the activation
\* time of a target, the first included.
C7_FindTargetLatest ==
  ev.valid => ev.isLatest

\* C22: once evaluate() has cached offsetXfo for a target, no later
\* evaluate() changes that offset, for any sequence of Time values and
\* target poses; and __attachId is always -1 or the index of a target
\* whose offsetXfo is cached.
C22_OffsetComputedOnce ==
  /\ [][\A i \in 1..Len(attachTargets) :
          attachTargets[i].offsetXfo # NoXfo =>
            attachTargets'[i].offsetXfo = attachTargets[i].offsetXfo]_vars
  /\ [](\/ attachId = -1
        \/ /\ attachId \in 0..(Len(attachTargets) - 1)
           /\ attachTargets[attachId + 1].offsetXfo # NoXfo)

\* evaluate() went back to the first target, its offset cached before, with
\* the offsets of both targets cached and the pose of the first target not
\* the one a new offset would be taken from
C22_Witness ==
  /\ ev.valid /\ ev.switched /\ ~ev.fresh
  /\ ev.active = 0 /\ attachId = 0
  /\ Len(attachTargets) = 2
  /\ attachTargets[1].offsetXfo # NoXfo /\ attachTargets[2].offsetXfo # NoXfo
  /\ attachTargets[1].offsetXfo #
       OffsetXfo(attachTargets, targetXfo, 0, 1, inXfo)

\* -------------------------------------------------------------- timer claims
PendingOf(op) == {t \in pending : t.op = op}

\* C10: after detach() of a GearsOperator or PistonOperator no periodic
\* callback of it is pending, and no timer tick advances its Revolutions
\* for as long as it stays detached, whatever RPM changes happen meanwhile.
C10_DetachStopsTimer ==
  /\ [](\A op \in Operators : ~attached[op] => PendingOf(op) = {})
  /\ [][\A op \in Operators :
          (~attached[op] /\ ~attached'[op]) => revolutions'[op] = revolutions[op]]_vars

\* C11: after destroy() of a GearsOperator or PistonOperator no periodic
\* callback of it is pending and none is started again: its Revolutions
\* never changes afterwards, whatever RPM value changes follow.
C11_DestroyStopsTimer ==
  /\ [](\A op \in Operators : destroyed[op] => PendingOf(op) = {})
  /\ [][\A op \in Operators :
          (destroyed[op] /\ destroyed'[op]) => revolutions'[op] = revolutions[op]]_vars

\* C23 as stated: each operator has at most one pending timer callback at
\* every moment, over every interleaving of RPM changes, ticks, detach(),
\* reattach() and destroy(); and Revolutions is advanced at most once per
\* sample period: never again before a sample period has passed.
C23_OnePendingOneAdvance ==
  /\ [](\A op \in Operators : Cardinality(PendingOf(op)) <= 1)
  /\ [][\A op \in Operators :
          revolutions'[op] # revolutions[op] => ~recent[op]]_vars

\* C23 as amended: each operator has at most one pending timer callback at
\* every moment, and it is the one __timeoutId names; Revolutions is
\* advanced once by each pending callback that fires and once at every
\* start of the driver, where the RPM handler finds no timer id and calls
\* timerCallback() itself.
C23_OnePending ==
  /\ [](\A op \in Operators :
          /\ Cardinality(PendingOf(op)) <= 1
          /\ \A t \in PendingOf(op) : t.id = timeoutId[op])
  /\ [][\A op \in Operators :
          revolutions'[op] # revolutions[op] =>
            \/ \E t \in PendingOf(op) :
                  t.due /\ t.id \notin {u.id : u \in pending'}
            \/ /\ timeoutId[op] = NoTimer
               /\ PendingOf(op) = {}
               /\ RpmDrives(op, rpm'[op])]_vars

\* a gears driver started again after detach(), reattached and ticking:
\* one callback pending, Revolutions advanced by starts and by ticks
C23_Witness ==
  /\ \A op \in Operators : Cardinality(PendingOf(op)) = 1
  /\ nextTimer > 4
  /\ revolutions["gears"] >= 3
  /\ attached["gears"]

\* a pending callback of the operator is run in this step
Ticks(op) ==
  /\ \E t \in PendingOf(op) : t.due /\ t.id \notin {u.id : u \in pending'}
  /\ rpm' = rpm /\ attached' = attached /\ destroyed' = destroyed

\* C24: setting RPM of a GearsOperator to a nonzero value, positive or
\* negative, leaves a callback of the driver pending; each tick adds the
\* RPM value current at that tick, in units of 1/(50*60) turn, to
\* Revolutions and schedules the next tick; setting RPM to zero cancels the
\* pending tick, and while RPM stays zero Revolutions does not change.
C24_GearsRpmDriver ==
  /\ [][(rpm'["gears"] # rpm["gears"] /\ rpm'["gears"] # 0) =>
          \E t \in pending' : t.op = "gears"]_vars
  /\ [][Ticks("gears") =>
          /\ revolutions'["gears"] = revolutions["gears"] + rpm["gears"]
          /\ \E t \in pending' : t.op = "gears" /\ ~t.due]_vars
  /\ [][revolutions'["gears"] # revolutions["gears"] =>
          revolutions'["gears"] = revolutions["gears"] + rpm'["gears"]]_vars
  /\ [](rpm["gears"] = 0 => PendingOf("gears") = {})
  /\ [][(rpm["gears"] = 0 /\ rpm'["gears"] = 0) =>
          revolutions'["gears"] = revolutions["gears"]]_vars

\* the gears driver runs backwards after it ran forwards: RPM is negative,
\* Revolutions has gone up and come down again, a callback is due
C24_Witness ==
  /\ rpm["gears"] = -1
  /\ revolutions["gears"] = 0
  /\ nextTimer >= 4
  /\ \E t \in PendingOf("gears") : t.due
  /\ PendingOf("piston") = {} /\ timeoutId["piston"] = NoTimer

\* C12: evaluate() of a mechanism operator neither reads nor writes an
\* unconnected output and does not fail, and it writes every connected one.
C12_UnconnectedOutputNoOp ==
  mev.op \in MechOperators =>
    /\ ~mev.threw
    /\ (mev.read \cup mev.written) \cap (Outputs(mev.op) \ mev.conn) = {}
    /\ mev.conn \subseteq mev.written

\* C13: evaluate() of a solver that is not enabled writes back to every
\* joint output the pose it read from it, reads no bind data and does not
\* fail, for the IKSolver and the TriangleIKSolver alike.
C13_DisabledSolverPassThrough ==
  (sev.solver \in Solvers /\ ~sev.enabled) =>
    /\ ~sev.threw
    /\ ~sev.readBind
    /\ sev.written = sev.read

IsValueAt(ks, t, v) ==
  LET n == Len(ks) IN
  /\ t <= ks[1].time => v = Exact(ks[1].value)
  /\ t >= ks[n].time => v = Exact(ks[n].value)
  /\ \A k \in 1..n : t = ks[k].time => v = Exact(ks[k].value)
  /\ \A k \in 1..(n - 1) :
       (ks[k].time < t /\ t < ks[k + 1].time) =>
         /\ v.kind = "lerp"
         /\ v.from = ks[k].value /\ v.to = ks[k + 1].value
         /\ v.den > 0
         /\ v.num * (ks[k + 1].time - ks[k].time) = (t - ks[k].time) * v.den

\* C15: on a non-empty track with strictly increasing key times evaluate(t)
\* gives the first key's value at or before the first key, the last key's
\* value at or after the last key, key k's value at key k's time, and
\* strictly between keys k and k+1 the blend of their two values at the
\* fraction (t - t_k) / (t_k+1 - t_k); a clean output holds what the last
\* evaluate(t) gave.
C15_EvaluateExactOrBlend ==
  (~dirty /\ keys # <<>> /\ StrictlyIncreasing(keys)) =>
    IsValueAt(keys, sampleTime, output)

\* evaluate strictly between the second and the third of three keys
C15_Witness ==
  /\ ~dirty
  /\ Len(keys) = 3 /\ StrictlyIncreasing(keys)
  /\ keys[2].time < sampleTime /\ sampleTime < keys[3].time
  /\ output.kind = "lerp"
  /\ output.from = keys[2].value /\ output.to = keys[3].value
  /\ output.from # output.to

\* a persisted key list with a missing key field or with key times that are
\* not in increasing order
Malformed(j) ==
  \/ \E i \in 1..Len(j) : j[i].time = Undefined \/ j[i].value = Missing
  \/ \E i \in 1..(Len(j) - 1) :
       j[i].time # Undefined /\ j[i + 1].time # Undefined /\ j[i].time > j[i + 1].time

\* C16: fromJSON given a key list with a missing key field or with key times
\* out of order ends in a decode error and installs none of the keys.
C16_MalformedLoadFails ==
  (lev.valid /\ Malformed(lev.json)) => (lev.threw /\ loaded = <<>>)

\* C17: a fresh track of the same class loaded with fromJSON(t.toJSON())
\* has the key count, the key times in their order and the key values of t,
\* the values being of the same kind as the originals.
C17_TrackRoundTrip ==
  (lev.valid /\ lev.json = ToJSON(trackClass, keys)) =>
    (~lev.threw /\ loaded = TypedKeys(trackClass, keys))

\* C18: the undo controls (Ctrl+Z, window.undoChange) call undo() and the
\* redo controls (Ctrl+Y, window.redoChange) call redo(), so that a redo
\* control used right after an undo control that undid a change leaves the
\* track as it was before that undo.
C18_UndoRedoControls ==
  /\ ctl.control \in UndoControls => ctl.called = "undo"
  /\ ctl.control \in RedoControls => ctl.called = "redo"
  /\ ctl.pair => keys = ctl.before

\* what the track gives at a time, nothing for an empty track
ContentAt(ks, time) ==
  IF ks = <<>> THEN Exact(NoValue) ELSE TrackEvaluate(ks, time)

\* C20 as stated: within one open transaction the writes at one Time value,
\* with or without writes at other times in between, give the transaction
\* exactly one secondary change for that time; the track then holds the
\* value written last at that time, and undoing that change restores what
\* the track had at that time before the transaction.
C20_CoalescePerTime ==
  (isOpen /\ run.valid) =>
    /\ \A t \in 0..MaxPropTime : tx.made[t] <= 1
    /\ ContentAt(keys, run.time) = Exact(run.value)
    /\ ContentAt(ChangeUndo(secondaryChanges[Len(secondaryChanges)], keys), run.time)
         = ContentAt(tx.pre, run.time)

\* C20 as amended: the writes at one Time value that follow one another
\* with no write at another time in between give the transaction exactly
\* one secondary change; the track then holds the value written last at
\* that time, and undoing that change restores the track as it was before
\* the first of them.
C20_CoalesceConsecutive ==
  (isOpen /\ run.valid) =>
    /\ Len(secondaryChanges) = run.changesBefore + 1
    /\ ContentAt(keys, run.time) = Exact(run.value)
    /\ ChangeUndo(secondaryChanges[Len(secondaryChanges)], keys) = run.preKeys

\* repeated writes at one time after a write at another time: two secondary
\* changes, the second one updated
C20_Witness ==
  /\ isOpen /\ run.valid
  /\ run.count >= 2
  /\ run.changesBefore = 1
  /\ Len(secondaryChanges) = 2
  /\ secondaryChanges[2].kind = "AddKeyChange"
  /\ keys # run.preKeys

\* the keys after a write at time t that replaces the value of the key at t
\* or inserts a key at t, every other key kept
WroteOnlyAt(p, ks, t, v) ==
  \/ \E k \in 1..Len(p) : p[k].time = t /\ ks = [p EXCEPT ![k].value = v]
  \/ \E i \in 0..Len(p) : ks = InsertAt(p, i, Key(t, v))

\* C21: on a non-empty track, setValue(t, v), and backPropagateValue(v) at
\* Time = t inside an open transaction, replaces the value of the key whose
\* time is t or inserts a key at time t, and leaves the time and value of
\* every other key unchanged.
C21_WriteKeepsOtherKeys ==
  /\ (last.op = "setValue" /\ last.pre # <<>>) =>
        WroteOnlyAt(last.pre, keys, last.time, last.value)
  /\ (isOpen /\ run.valid /\ run.count = 1 /\ run.preKeys # <<>>) =>
        WroteOnlyAt(run.preKeys, keys, run.time, run.value)

\* C25: every joint that evaluate() of an enabled IKSolver sweeps has the
\* bind data of init(), so evaluate() does not fail, for any sequence of
\* addJoint(), enable() and evaluate(), also with addJoint() after enable().
C25_EnabledSolverJointsInitialised ==
  (jev.valid /\ jev.enabled) =>
    /\ ~jev.threw
    /\ \A j \in jev.swept : j \in 1..Len(ikJoints) /\ ikJoints[j].inited

\* C26: for a part with a connected output, in cascade mode, the
\* displacement added along the axis is
\* explodeDistance * linearStep(t0, t1, f) * multiplier + offset with
\* f = max(0, explode - stage/stages), stage/stages lowered by 0.5 when
\* centered: the offset is added once and is not scaled by the multiplier.
C26_ExplodeDisplacement ==
  (xev.valid /\ xev.connected /\ xev.part.cascade) =>
    LET p == xev.part
        f == Max({0, p.explode - StageFraction(p.stage, p.stages, p.centered)})
    IN  /\ xev.moved
        /\ xev.by = p.explodeDist * ExplodeUnit *
                      LinStep(p.movement[1], p.movement[2], f) * p.multiplier
                    + ExplodeUnit * ExplodeUnit * p.offset

\* C27: the angle-limit step takes the signed angle between the joint and
\* its parent about the joint's axis, for each of the axes X, Y and Z;
\* below min or above max it turns the joint so that the angle is the
\* nearer limit, and within [min, max] it leaves the orientation.
C27_AngleLimitClamp ==
  aev.valid =>
    LET j == aev.joint IN
    /\ aev.currAngle = j.theta
    /\ j.theta < j.min => aev.after = j.min
    /\ j.theta > j.max => aev.after = j.max
    /\ (j.min <= j.theta /\ j.theta <= j.max) => aev.after = j.theta

\* ------------------------------------------------------- timeline claims
\* C28: the delete-key control removes a key only when the current time is
\* that key's time, and then exactly that key through one RemoveKeyChange
\* given to the undo manager; at a time that is no key time (before the
\* first key, between keys, after the last key) or on an empty track the
\* track is left unchanged and no error occurs.
C28_DeleteKeyAtKeyTime ==
  tev.control = "delete" =>
    LET p == tev.pre
        at == {k \in 1..Len(p) : p[k].time = tev.time}
    IN  /\ ~tev.threw
        /\ at = {} => (keys = p /\ Len(undoStack) = tev.changes)
        /\ at # {} =>
             \E k \in at :
               /\ keys = RemoveKey(p, k - 1)
               /\ Len(undoStack) = tev.changes + 1
               /\ undoStack[Len(undoStack)] = RemoveKeyChange(p, k - 1).change

\* C29: on a track with at least one key the next-key control stops
\* playback and sets Time to the smallest key time strictly greater than
\* the current time, or to the first key's time when there is none; the
\* previous-key control stops playback and sets Time to the largest key
\* time strictly less than the current time, or to the last key's time
\* when there is none; for every current time.
C29_KeyNavigation ==
  (tev.control \in {"prev", "next"} /\ tev.pre # <<>>) =>
    LET p == tev.pre
        later == {p[k].time : k \in {i \in 1..Len(p) : p[i].time > tev.time}}
        earlier == {p[k].time : k \in {i \in 1..Len(p) : p[i].time < tev.time}}
    IN  /\ ~tev.threw
        /\ ~playingId
        /\ tev.control = "next" =>
             timeValue = IF later = {} THEN p[1].time ELSE Min(later)
        /\ tev.control = "prev" =>
             timeValue = IF earlier = {} THEN p[Len(p)].time ELSE Max(earlier)

\* C30: after any sequence of part additions, at any list index, and part
\* removals, Stages is greater than the Stage of every part of the list;
\* and after n parts were appended to the empty list, part i has Stage i
\* and Stages is n.
C30_StagesAboveEveryStage ==
  /\ \A i \in 1..Len(parts) : parts[i] < stagesParam
  /\ appended =>
       /\ \A i \in 1..Len(parts) : parts[i] = i - 1
       /\ stagesParam = Len(parts)

\* ------------------------------------------------------------ specifications
NewOp == [op |-> "new", time |-> Undefined, value |-> NoValue,
          index |-> Undefined, result |-> NoResult, threw |-> FALSE,
          pre |-> <<>>]

\* new AttachmentConstraint(name), its ports not evaluated yet
InitAttachVars ==
  /\ attachTargets = <<>>
  /\ targetXfo = <<>>
  /\ attachId = -1
  /\ inXfo = XfoId
  /\ outXfo = XfoId
  /\ ev = [valid |-> FALSE, active |-> -1, switched |-> FALSE,
           fresh |-> FALSE, isLatest |-> TRUE, asPrev |-> TRUE, asLast |-> TRUE]

\* new GearsOperator(name), new PistonOperator(name)
InitTimerVars ==
  /\ rpm = [op \in Operators |-> 0]
  /\ revolutions = [op \in Operators |-> 0]
  /\ timeoutId = [op \in Operators |-> NoTimer]
  /\ pending = {}
  /\ recent = [op \in Operators |-> FALSE]
  /\ nextTimer = 1
  /\ attached = [op \in Operators |-> TRUE]
  /\ destroyed = [op \in Operators |-> FALSE]

\* A track that is created empty and edited by addKey, removeKey, setValue.
\* new IKSolver / new TriangleIKSolver with two joints: enabled = false
InitSolverVars ==
  /\ enabled = [s \in Solvers |-> FALSE]
  /\ jointXfo = [s \in Solvers |-> <<XfoFlip, XfoTurn>>]
  /\ sev = [solver |-> "none", enabled |-> FALSE, read |-> <<>>,
            written |-> <<>>, readBind |-> FALSE, threw |-> FALSE]

\* new TrackSampler(name, track): nothing evaluated yet
InitSamplerVars ==
  /\ dirty = TRUE
  /\ sampleTime = 0
  /\ output = Exact(NoValue)

\* new TrackSampler(name, track), no transaction begun
InitBackPropVars ==
  /\ changeId = 0
  /\ isOpen = FALSE
  /\ secondaryChanges = <<>>
  /\ currChange = 0
  /\ secondaryChangeTime = -1
  /\ tx = [pre |-> <<>>, made |-> [t \in 0..MaxPropTime |-> 0]]
  /\ run = NoRun

\* new IKSolver(name): no joints, enabled = false
InitJointVars ==
  /\ ikJoints = <<>>
  /\ ikEnabled = FALSE
  /\ jev = [valid |-> FALSE, enabled |-> FALSE, swept |-> {}, threw |-> FALSE]

\* no part evaluated yet
InitExplodeVars ==
  xev = [valid |-> FALSE, part |-> NoPart, connected |-> FALSE,
         moved |-> FALSE, by |-> 0]

\* no angle-limit step yet
InitAngleVars ==
  aev = [valid |-> FALSE, joint |-> NoJoint, currAngle |-> 0, after |-> 0]

\* setupAnimation: time 0, not playing
InitTimelineVars ==
  /\ timeValue = 0
  /\ playingId = FALSE
  /\ tev = [control |-> "none", pre |-> <<>>, time |-> 0, changes |-> 0,
            threw |-> FALSE]

\* new ExplodePartsOperator(name): no parts, Stages 0
InitStageVars ==
  /\ parts = <<>>
  /\ stagesParam = 0
  /\ appended = TRUE

\* no control used yet
InitControlVars ==
  ctl = [control |-> "none", called |-> "none", undid |-> FALSE,
         after |-> <<>>, before |-> <<>>, pair |-> FALSE]

\* nothing stored, nothing loaded
InitPersistVars ==
  /\ trackClass = "XfoTrack"
  /\ json = <<>>
  /\ loaded = <<>>
  /\ lev = [valid |-> FALSE, json |-> <<>>, threw |-> FALSE]

\* the operators as constructed: no output is connected yet
InitMechVars ==
  /\ connected = [op \in MechOperators |-> {}]
  /\ mev = [op |-> "none", conn |-> {}, read |-> {}, written |-> {},
            threw |-> FALSE]

Init ==
  /\ keys = <<>>
  /\ undoStack = <<>>
  /\ redoStack = <<>>
  /\ base = <<>>
  /\ pre = <<>>
  /\ post = <<>>
  /\ last = NewOp
  /\ InitAttachVars
  /\ InitTimerVars
  /\ InitMechVars
  /\ InitSolverVars
  /\ InitSamplerVars
  /\ InitPersistVars
  /\ InitControlVars
  /\ InitBackPropVars
  /\ InitJointVars
  /\ InitExplodeVars
  /\ InitAngleVars
  /\ InitTimelineVars
  /\ InitStageVars

Next ==
  \/ \E t \in Times, v \in Values : DoAddKey(t, v)
  \/ \E i \in 0..(MaxKeys - 1) : DoRemoveKey(i)
  \/ \E t \in Times, v \in Values : DoSetValue(t, v)
  \/ \E t \in 0..(MaxTime + 1) : DoFindKeyAndLerp(t)

Spec == Init /\ [][Next]_vars

\* The tracks addKey and removeKey can build: time-sorted, times may repeat.
KeySet == {Key(t, v) : t \in Times, v \in Values}

SortedTracks ==
  {ks \in UNION {[1..n -> KeySet] : n \in 0..MaxInitKeys} : TimeSorted(ks)}

\* A track edited through Change objects and the undo manager only.
InitChange ==
  /\ keys \in SortedTracks
  /\ undoStack = <<>>
  /\ redoStack = <<>>
  /\ base = keys
  /\ pre = keys
  /\ post = keys
  /\ last = NewOp
  /\ InitAttachVars
  /\ InitTimerVars
  /\ InitMechVars
  /\ InitSolverVars
  /\ InitSamplerVars
  /\ InitPersistVars
  /\ InitControlVars
  /\ InitBackPropVars
  /\ InitJointVars
  /\ InitExplodeVars
  /\ InitAngleVars
  /\ InitTimelineVars
  /\ InitStageVars

NextChange ==
  \/ \E t \in Times, v \in Values : NewAddKeyChange(t, v)
  \/ \E i \in 0..(MaxKeys - 1), v \in Values : NewKeyChange(i, v)
  \/ \E i \in 0..(MaxKeys - 1) : NewRemoveKeyChange(i)
  \/ \E v \in Values : UpdateChange(v)
  \/ Undo
  \/ Redo

SpecChange == InitChange /\ [][NextChange]_vars

\* An attachment constraint the scene drives: targets are added, time and
\* poses change, and evaluate() runs whenever the output is pulled.
InitAttach == Init

NextAttach ==
  \/ \E t \in 1..MaxAttachTime, x \in XfoInputs : DoAddAttachTarget(t, x)
  \/ \E t \in 0..(MaxAttachTime + 1), x \in XfoInputs,
        poses \in [1..Len(attachTargets) -> XfoInputs] :
          EvaluateAttach(t, poses, x)

SpecAttach == InitAttach /\ [][NextAttach]_vars

\* A gears and a piston operator: RPM is set, the host runs the callbacks
\* that are due, the operators are detached and reattached.
InitTimer == Init

NextTimer ==
  \/ \E op \in Operators, v \in RPMs : SetRPM(op, v)
  \/ PassPeriod
  \/ \E t \in pending : Tick(t)
  \/ \E op \in Operators : Detach(op)
  \/ \E op \in Operators : Reattach(op)
  \/ \E op \in Operators : Destroy(op)

SpecTimer == InitTimer /\ [][NextTimer]_vars

InitMech == Init

NextMech ==
  \/ \E op \in MechOperators :
       \E o \in Outputs(op), on \in BOOLEAN : SetParam(op, o, on)
  \/ \E op \in MechOperators : DoMechEvaluate(op)

SpecMech == InitMech /\ [][NextMech]_vars

InitSolver == Init

NextSolver ==
  \/ \E s \in Solvers : Enable(s)
  \/ \E s \in Solvers, poses \in JointPoses : MoveJoints(s, poses)
  \/ \E s \in Solvers, solved \in JointPoses : DoSolverEvaluate(s, solved)

SpecSolver == InitSolver /\ [][NextSolver]_vars

InitSampler == Init

NextSampler ==
  \/ \E t \in 1..MaxSampleTime, v \in Values : TrackAddKey(t, v)
  \/ \E i \in 0..(MaxSampleKeys - 1) : TrackRemoveKey(i)
  \/ \E i \in 0..(MaxSampleKeys - 1), v \in Values : TrackSetKeyValue(i, v)
  \/ \E t \in 0..(MaxSampleTime + 1) : SetSampleTime(t)
  \/ ReadOutput

SpecSampler == InitSampler /\ [][NextSampler]_vars

InitPersist == Init

\* the fields of a persisted key: a time or none, a plain value or none
DocTimes == (1..MaxDocTime) \cup {Undefined}
DocValues == {ValueOf("json", v) : v \in Values} \cup {Missing}

NextPersist ==
  \/ \E c \in TrackClasses : NewTrack(c)
  \/ \E t \in 1..MaxDocTime, v \in Values : PersistAddKey(t, v)
  \/ Save
  \/ \E t \in DocTimes, v \in DocValues : WriteKeyJSON(t, v)
  \/ ClearJSON
  \/ Load

SpecPersist == InitPersist /\ [][NextPersist]_vars

\* the application starts with an empty track and an empty undo log
InitControls == Init

NextControls ==
  \/ \E t \in 1..MaxControlTime, v \in Values : NewAddKeyChange(t, v)
  \/ \E i \in 0..(MaxKeys - 1), v \in Values : NewKeyChange(i, v)
  \/ \E i \in 0..(MaxKeys - 1) : NewRemoveKeyChange(i)
  \/ \E c \in UndoControls \cup RedoControls : UseControl(c)

SpecControls == InitControls /\ [][NextControls]_vars

\* the tracks a sampler is constructed on: their keys are sorted by time
PropTracks ==
  {ks \in UNION {[1..n -> {Key(t, v) : t \in 1..MaxPropTime, v \in Values}] :
                   n \in 0..MaxPropKeys} : TimeSorted(ks)}

InitBackProp ==
  /\ keys \in PropTracks
  /\ undoStack = <<>>
  /\ redoStack = <<>>
  /\ base = <<>>
  /\ pre = <<>>
  /\ post = <<>>
  /\ last = NewOp
  /\ InitAttachVars
  /\ InitTimerVars
  /\ InitMechVars
  /\ InitSolverVars
  /\ InitSamplerVars
  /\ InitPersistVars
  /\ InitControlVars
  /\ InitBackPropVars
  /\ InitJointVars
  /\ InitExplodeVars
  /\ InitAngleVars
  /\ InitTimelineVars
  /\ InitStageVars

NextBackProp ==
  \/ BeginChange
  \/ CloseChange
  \/ \E t \in 1..MaxPropTime : SetPropTime(t)
  \/ \E v \in Values : BackPropagateValue(v)

SpecBackProp == InitBackProp /\ [][NextBackProp]_vars

\* An IKSolver that is given joints, enabled and evaluated in any order.
InitJoints == Init

NextJoints ==
  \/ \E a \in 0..2 : AddJoint(a)
  \/ EnableSolver
  \/ EvaluateSolver

SpecJoints == InitJoints /\ [][NextJoints]_vars

\* An explode part that the operator evaluates with every combination of
\* its parameters.
InitExplode == Init

NextExplode ==
  \E field \in PartFields, c \in BOOLEAN :
    \E value \in FieldValues(field) :
      EvaluatePart([xev.part EXCEPT ![field] = value], c)

SpecExplode == InitExplode /\ [][NextExplode]_vars

\* A joint whose axis, limits and orientation against its parent change
\* between the sweeps of the solver.
InitAngle == Init

NextAngle ==
  \E field \in JointFields :
    \E value \in JointValues(field) :
      ApplyAngleLimits([aev.joint EXCEPT ![field] = value])

SpecAngle == InitAngle /\ [][NextAngle]_vars

\* The timeline of the animation: a track with keys at increasing times,
\* the time bar, the play control, the key navigation and the delete key.
TimelineTracks ==
  {ks \in UNION {[1..n -> {Key(t, "a") : t \in 1..MaxTimelineTime}] :
                   n \in 0..MaxTimelineKeys} : StrictlyIncreasing(ks)}

InitTimeline ==
  /\ keys \in TimelineTracks
  /\ undoStack = <<>>
  /\ redoStack = <<>>
  /\ base = <<>>
  /\ pre = <<>>
  /\ post = <<>>
  /\ last = NewOp
  /\ InitAttachVars
  /\ InitTimerVars
  /\ InitMechVars
  /\ InitSolverVars
  /\ InitSamplerVars
  /\ InitPersistVars
  /\ InitControlVars
  /\ InitBackPropVars
  /\ InitJointVars
  /\ InitExplodeVars
  /\ InitAngleVars
  /\ InitTimelineVars
  /\ InitStageVars

NextTimeline ==
  \/ TogglePlay
  \/ PlayStep
  \/ \E t \in 0..MaxTimelineTime : DragTimeBar(t)
  \/ DeleteKey
  \/ \E control \in {"prev", "next"} : GoToKey(control)

SpecTimeline == InitTimeline /\ [][NextTimeline]_vars

\* The Parts list of an explode operator: parts are added at any index and
\* removed.
InitStages == Init

NextStages ==
  \/ \E i \in 0..MaxParts : AddPart(i)
  \/ \E i \in 0..(MaxParts - 1) : RemovePart(i)

SpecStages == InitStages /\ [][NextStages]_vars

====
